---- MODULE Spec2Model ----
(***************************************************************************)
(* cvastrophoto: dark-frame weight search and denoising (raw.py), the      *)
(* frame accumulator (raw.py) and grid registration (rops/tracking/grid.py)*)
(* The code is Python 2: "/" on integers is floor division, xrange and map *)
(* are the Python 2 builtins.                                              *)
(***************************************************************************)
EXTENDS Integers, Sequences, FiniteSets, TLC

VARIABLES
    \* GridTrackingRop construction
    sizes,            \* the raw.rimg.sizes and track_roi the rop was built with
    trackers,         \* self.trackers: the grid_coords of each tracker, in order
    \* RawAccumulator
    accum,            \* self.accum: None or the uint32 running sum
    num_images,       \* self.num_images
    out_image,        \* the last raw_image read: the sum it read and what it returned
    acc_frames,       \* the raw images added so far, in order
    \* GridTrackingRop.detect
    tracking_cache,   \* self.tracking_cache: None, or a dict from key to cached triple
    last_detect,      \* the last detect call: key, outcome, whether trackers ran
    first_outcome,    \* per key, the outcome of the first detect since load_state
    \* Raw.denoise driving find_entropy_weights
    light,            \* the light frame's raw buffer (uint16, mutated in place)
    light0,           \* the light frame's pixels before denoise started
    darks,            \* the dark frames' raw buffers
    ranges,           \* the generator's list of ((e, base, denom), dark)
    gen_pc,           \* where the generator / denoise loop stands
    pending,          \* the triple yielded and not yet applied
    emitted,          \* the triples yielded so far, in order
    last_step,        \* what the last generator step did
    last_read         \* the light pixels the last entropy evaluations read

grid_vars   == <<sizes, trackers>>
accum_vars  == <<accum, num_images, out_image, acc_frames>>
detect_vars == <<tracking_cache, last_detect, first_outcome>>
dn_vars     == <<light, light0, darks, ranges, gen_pc, pending, emitted,
                 last_step, last_read>>
vars == <<grid_vars, accum_vars, detect_vars, dn_vars>>

\* Python's None is the empty tuple, a value x that is present is <<x>>.
None == <<>>
Some(x) == <<x>>
The(o) == o[1]

Max(a, b) == IF a >= b THEN a ELSE b
Min(a, b) == IF a <= b THEN a ELSE b

RECURSIVE Pow(_, _)
Pow(b, e) == IF e = 0 THEN 1 ELSE b * Pow(b, e - 1)

RECURSIVE SumUpTo(_, _)
SumUpTo(s, n) == IF n = 0 THEN 0 ELSE s[n] + SumUpTo(s, n - 1)
SeqSum(s) == SumUpTo(s, Len(s))

\* The states of the parts a specification does not exercise.
GridIdle   == sizes = None /\ trackers = <<>>
AccumIdle  == accum = None /\ num_images = 0 /\ out_image = None /\ acc_frames = <<>>
DetectIdle == tracking_cache = None /\ last_detect = None /\ first_outcome = None
DenoiseIdle == /\ light = <<>> /\ light0 = <<>> /\ darks = <<>> /\ ranges = <<>>
               /\ gen_pc = "idle" /\ pending = None /\ emitted = <<>>
               /\ last_step = <<>> /\ last_read = None

(***************************************************************************)
(* GridTrackingRop.__init__: the tracker grid                              *)
(***************************************************************************)

\* Largest image dimension tried (besides the 900 px example).
MaxDim == 12

\* grid_size = (3, 3)
grid_size == <<3, 3>>

DimVals == (3..MaxDim) \cup {900}
MarginVals == {0, 2}
\* track_roi = (t, l, b, r) margins, normalized; here in quarters of the image
RoiVals == {<<0, 0, 0, 0>>, <<1, 0, 0, 1>>}

\* int(margin * size) for a margin of q quarters
RoiPixels(q, size) == (q * size) \div 4

\* Python 2 xrange(start, stop, step), step > 0
XRange(start, stop, step) ==
    LET n == IF stop <= start THEN 0 ELSE (stop - start + step - 1) \div step
    IN  [i \in 1..n |-> start + (i - 1) * step]

\* The valid region (t, l, b, r) of lines 54-58
Region(sz) ==
    LET t == sz.top_margin + RoiPixels(sz.roi[1], sz.iheight)
        l == sz.left_margin + RoiPixels(sz.roi[2], sz.iwidth)
        b == sz.top_margin + sz.iheight - RoiPixels(sz.roi[3], sz.iheight)
        r == sz.left_margin + sz.iwidth - RoiPixels(sz.roi[4], sz.iwidth)
    IN  [t |-> t, l |-> l, b |-> b, r |-> r]

\* The nested loops of lines 60-70: one tracker per (y, x), rows outermost
GridCoords(sz) ==
    LET reg == Region(sz)
        yspacing == (reg.b - reg.t) \div grid_size[1]
        xspacing == (reg.r - reg.l) \div grid_size[2]
        ys == XRange(reg.t + yspacing \div 2, reg.b, yspacing)
        xs == XRange(reg.l + xspacing \div 2, reg.r, xspacing)
    IN  [k \in 1..(Len(ys) * Len(xs)) |->
            <<ys[((k - 1) \div Len(xs)) + 1], xs[((k - 1) % Len(xs)) + 1]>>]

Construct(ih, iw, tm, lm, roi) ==
    LET sz == [iheight |-> ih, iwidth |-> iw, top_margin |-> tm,
               left_margin |-> lm, roi |-> roi]
        reg == Region(sz)
    IN  \* __init__ runs once; xrange() raises on a zero step, and no rop is
        \* built for such a region
        /\ sizes = None
        /\ reg.b - reg.t >= grid_size[1]
        /\ reg.r - reg.l >= grid_size[2]
        /\ sizes' = Some(sz)
        /\ trackers' = GridCoords(sz)
        /\ UNCHANGED <<accum_vars, detect_vars, dn_vars>>

GridInit == GridIdle /\ AccumIdle /\ DetectIdle /\ DenoiseIdle

GridNext ==
    \E ih \in DimVals, iw \in DimVals, tm \in MarginVals, lm \in MarginVals,
       roi \in RoiVals : Construct(ih, iw, tm, lm, roi)

SpecGrid == GridInit /\ [][GridNext]_vars

\* C6: a rop built with grid size (gy, gx) over a region of height H >= gy and
\* width W >= gx has exactly gy*gx trackers, one per grid-cell centre: rows
\* H/gy apart, columns W/gx apart, starting half a spacing inside the region's
\* top-left corner, every coordinate inside the region; for every H and W.
GridHasOneTrackerPerCell ==
    sizes /= None =>
        LET reg == Region(The(sizes))
            gy == grid_size[1]
            gx == grid_size[2]
            ysp == (reg.b - reg.t) \div gy
            xsp == (reg.r - reg.l) \div gx
        IN  /\ Len(trackers) = gy * gx
            /\ \A i \in 0..(gy - 1), j \in 0..(gx - 1) :
                  /\ i * gx + j + 1 \in DOMAIN trackers
                  /\ trackers[i * gx + j + 1] =
                        <<reg.t + ysp \div 2 + i * ysp, reg.l + xsp \div 2 + j * xsp>>
            /\ \A k \in DOMAIN trackers :
                  /\ trackers[k][1] >= reg.t /\ trackers[k][1] < reg.b
                  /\ trackers[k][2] >= reg.l /\ trackers[k][2] < reg.r

\* The 3x3 grid on a 900x900 region with zero ROI margin: 150, 450, 750.
GridExample900 ==
    (sizes /= None /\ The(sizes).iheight = 900 /\ The(sizes).iwidth = 900
        /\ The(sizes).roi = <<0, 0, 0, 0>> /\ The(sizes).top_margin = 0
        /\ The(sizes).left_margin = 0)
    => trackers = << <<150, 150>>, <<150, 450>>, <<150, 750>>,
                     <<450, 150>>, <<450, 450>>, <<450, 750>>,
                     <<750, 150>>, <<750, 450>>, <<750, 750>> >>

(***************************************************************************)
(* RawAccumulator                                                          *)
(***************************************************************************)

\* Most frames added to one accumulator.
MaxFrames == 3

AccPixels == 1..2
\* uint16 sensor values tried
AccPixelVals == {0, 30000, 65535}
AccFrames == [AccPixels -> AccPixelVals]

UInt16Max == 65535

\* ndarray.astype(numpy.uint16)
AsUInt16(a) == [p \in DOMAIN a |-> a[p] % (UInt16Max + 1)]

ArrayMax(a) == CHOOSE m \in {a[p] : p \in DOMAIN a} : \A p \in DOMAIN a : a[p] <= m

\* __iadd__: the first frame is widened to uint32, the later ones are added in
\* place. The uint32 sum wraps at 2^32, which takes more than 65,537 frames;
\* the sums of MaxFrames frames stay below it, so the addition is exact here.
IAdd(frame) ==
    /\ num_images < MaxFrames
    /\ accum' = IF accum = None
                THEN Some(frame)
                ELSE Some([p \in DOMAIN frame |-> The(accum)[p] + frame[p]])
    /\ num_images' = IF accum = None THEN 1 ELSE num_images + 1
    /\ acc_frames' = Append(acc_frames, frame)
    /\ UNCHANGED <<out_image, grid_vars, detect_vars, dn_vars>>

\* a mutation of ShiftLoop: the loop runs while maxval >= 65535
RECURSIVE ShiftLoopOffByOne(_, _)
ShiftLoopOffByOne(maxval, shift) ==
    IF maxval >= UInt16Max THEN ShiftLoopOffByOne(maxval \div 2, shift + 1) ELSE shift

\* while maxval > 65535: shift += 1; maxval /= 2
RECURSIVE ShiftLoop(_, _)
ShiftLoop(maxval, shift) ==
    IF maxval > UInt16Max THEN ShiftLoop(maxval \div 2, shift + 1) ELSE shift

\* the raw_image property
RawImageOf(acc) ==
    IF acc = None
    THEN None
    ELSE LET a == The(acc)
             shift == ShiftLoop(ArrayMax(a), 0)
             shifted == IF shift /= 0
                        THEN [p \in DOMAIN a |-> a[p] \div Pow(2, shift)]
                        ELSE a
         IN  Some(AsUInt16(shifted))

RawImage ==
    /\ out_image' = Some([src |-> accum, img |-> RawImageOf(accum)])
    /\ UNCHANGED <<accum, num_images, acc_frames, grid_vars, detect_vars, dn_vars>>

AccumInit == GridIdle /\ AccumIdle /\ DetectIdle /\ DenoiseIdle

AccumNext == (\E frame \in AccFrames : IAdd(frame)) \/ RawImage

SpecAccum == AccumInit /\ [][AccumNext]_vars

\* The running sum of the frames added, as a uint32 array.
FrameSum(fs, p) == SeqSum([i \in DOMAIN fs |-> fs[i][p]])

\* C5: raw_image returns the 32-bit running sum shifted right by the smallest
\* s >= 0 with (max pixel of the sum) >> s <= 65535: every output pixel is
\* <= 65535 and equals sum >> s; with no frames added it returns nothing.
AccumRawImageMinimalShift ==
    /\ (accum = None) = (acc_frames = <<>>)
    /\ accum /= None =>
          The(accum) = [p \in AccPixels |-> FrameSum(acc_frames, p)]
    /\ out_image /= None =>
          LET src == The(out_image).src
              img == The(out_image).img
          IN  IF src = None
              THEN img = None
              ELSE /\ img /= None
                   /\ \E s \in 0..16 :
                         /\ ArrayMax(The(src)) \div Pow(2, s) <= 65535
                         /\ \A s2 \in 0..(s - 1) :
                               ArrayMax(The(src)) \div Pow(2, s2) > 65535
                         /\ \A p \in AccPixels :
                               /\ The(img)[p] = The(src)[p] \div Pow(2, s)
                               /\ The(img)[p] <= 65535

\* A read of a sum that needed a shift, after several frames.
AccumShiftedRead ==
    /\ out_image /= None
    /\ The(out_image).src /= None
    /\ ArrayMax(The(The(out_image).src)) > 65535
    /\ num_images >= 2

\* A read of the accumulator before any frame was added.
AccumEmptyRead == out_image /= None /\ The(out_image).src = None

(***************************************************************************)
(* GridTrackingRop.detect, load_state and the tracking cache               *)
(***************************************************************************)

\* Trackers of the rop whose detect is exercised.
NumTrackers == 5

\* median_shift_limit = 2
median_shift_limit == 2

\* The frame identity keys _tracking_key returns (a name, else an id).
Keys == {"a", "b"}

\* self._raw_pattern.shape: a 2x2 Bayer cell
pattern_shape == <<2, 2>>
\* raw.rimg.raw_image_visible.shape and raw.postprocessed.shape[:2]
VShape == <<64, 64>>
LShape == <<64, 64>>

\* The grid_coords of the trackers, multiples of 8 so that the rescaling
\* divisions below are exact.
TrackerCoords == [i \in 1..NumTrackers |-> <<8 * i, 8 * (NumTrackers + 1 - i)>>]

\* The (dy, dx) offsets the point trackers may report for a frame: a drift all
\* trackers see, plus OutlierOffset at the trackers that lost their patch. Any
\* set of trackers may be lost on frame "a"; on frame "b" the trackers agree.
Drifts == {<<0, 0>>, <<4, 0>>}
OutlierOffset == <<0, 32>>
OffsetsOf(drift, lost) ==
    [i \in 1..NumTrackers |->
        IF i \in lost
        THEN <<drift[1] + OutlierOffset[1], drift[2] + OutlierOffset[2]>>
        ELSE drift]
Measurements(key) ==
    {OffsetsOf(drift, lost) :
        drift \in Drifts,
        lost \in IF key = "a" THEN SUBSET (1..NumTrackers) ELSE {{}}}

\* The row the inner detect(tracker) builds from a tracker's bias: grid_coords,
\* the translated grid_coords, the translated origin.
TrackerRow(i, off) ==
    <<TrackerCoords[i][1], TrackerCoords[i][2],
      TrackerCoords[i][1] + off[1], TrackerCoords[i][2] + off[2],
      off[1], off[2]>>

\* numpy.array(map_(detect, self.trackers))
Translations(meas) == [i \in 1..NumTrackers |-> TrackerRow(i, meas[i])]

\* a mutation of TranslationsCopy: no copy is taken, the array is the cached one
TranslationsAlias(t) == [rows |-> t, shared |-> TRUE]

\* translations.copy(): a new array, not shared with the cache entry
TranslationsCopy(t) == [rows |-> t, shared |-> FALSE]

\* translations[:, [0, 2]] /= ysize / lyscale; translations[:, [1, 3]] /= xsize / lxscale
Rescale(rows, vshape, lshape) ==
    LET lyscale == vshape[1] \div lshape[1]
        lxscale == vshape[2] \div lshape[2]
        ydiv == pattern_shape[1] \div lyscale
        xdiv == pattern_shape[2] \div lxscale
    IN  [i \in DOMAIN rows |->
            <<rows[i][1] \div ydiv, rows[i][2] \div xdiv,
              rows[i][3] \div ydiv, rows[i][4] \div xdiv,
              rows[i][5], rows[i][6]>>]

\* skimage.transform.estimate_transform(type, src = cols [3, 2], dst = cols [1, 0]):
\* the least-squares fit, here of the translation dst = src + (sx, sy) / n.
EstimateTransform(rows) ==
    [n  |-> Len(rows),
     sx |-> SeqSum([i \in DOMAIN rows |-> rows[i][2] - rows[i][4]]),
     sy |-> SeqSum([i \in DOMAIN rows |-> rows[i][1] - rows[i][3]])]

\* shift_mags = sum(square(dst - transform(src)), axis=1), times transform.n^2
ShiftMags(rows, tr) ==
    [i \in DOMAIN rows |->
        LET ex == tr.n * (rows[i][2] - rows[i][4]) - tr.sx
            ey == tr.n * (rows[i][1] - rows[i][3]) - tr.sy
        IN  ex * ex + ey * ey]

\* The k-th smallest entry of a non-empty sequence.
KthSmallest(m, k) ==
    CHOOSE v \in {m[i] : i \in DOMAIN m} :
        /\ Cardinality({i \in DOMAIN m : m[i] < v}) < k
        /\ Cardinality({i \in DOMAIN m : m[i] <= v}) >= k

\* numpy.median(m), times 2: the middle entry, or the mean of the two middle ones
Median2(m) ==
    LET n == Len(m)
    IN  IF n % 2 = 1
        THEN 2 * KthSmallest(m, (n + 1) \div 2)
        ELSE KthSmallest(m, n \div 2) + KthSmallest(m, n \div 2 + 1)

SeqMax(m) == CHOOSE v \in {m[i] : i \in DOMAIN m} : \A i \in DOMAIN m : m[i] <= v

\* The subsequence of s at the indices the mask keeps, in order.
RECURSIVE SelectFrom(_, _, _)
SelectFrom(s, keep, i) ==
    IF i > Len(s) THEN <<>>
    ELSE (IF keep[i] THEN <<s[i]>> ELSE <<>>) \o SelectFrom(s, keep, i + 1)
SelectRows(s, keep) == SelectFrom(s, keep, 1)

\* a mutation of RemoveWorst: only the first sample of largest residual goes
RemoveFirstWorst(rows, mags) ==
    LET first == CHOOSE i \in DOMAIN mags :
                    /\ mags[i] = SeqMax(mags)
                    /\ \A j \in 1..(i - 1) : mags[j] < SeqMax(mags)
    IN  SelectRows(rows, [i \in DOMAIN rows |-> i /= first])

\* translations[shift_mags < shift_mags.max()]
RemoveWorst(rows, mags) ==
    SelectRows(rows, [i \in DOMAIN rows |-> mags[i] < SeqMax(mags)])

\* One pass of the loop body, lines 155-171: the fit, the residuals (times n^2),
\* the median as the fraction mnum/mden, and the samples kept if it is over the
\* limit.
FitRound(rows) ==
    LET tr == EstimateTransform(rows)
        mags == ShiftMags(rows, tr)
        mnum == Median2(mags)
        mden == 2 * tr.n * tr.n
    IN  [tr |-> tr, mags |-> mags, mnum |-> mnum, mden |-> mden,
         ntranslations |-> IF mnum > median_shift_limit * mden
                           THEN RemoveWorst(rows, mags)
                           ELSE rows]

\* The loop of lines 153-175 and the test of lines 177-183. The median is kept
\* as the fraction num/den; rounds records what each round saw and did.
RECURSIVE FitLoop(_, _, _, _, _)
FitLoop(rows, num, den, transform, rounds) ==
    IF num > median_shift_limit * den /\ Len(rows) > 3
    THEN LET fr == CHOOSE r \in {FitRound(rows)} : TRUE
             over == fr.mnum > median_shift_limit * fr.mden
             removed == over /\ Len(fr.ntranslations) >= 3
             round == [before |-> rows, mags |-> fr.mags, over |-> over,
                       after |-> IF removed THEN fr.ntranslations ELSE rows]
         IN  IF over /\ ~removed
             THEN [outcome |-> None, rows |-> rows, within |-> FALSE,
                   rounds |-> Append(rounds, round)]
             ELSE FitLoop(round.after, fr.mnum, fr.mden, Some(fr.tr),
                          Append(rounds, round))
    ELSE IF num > median_shift_limit * den \/ Len(rows) <= 4
         THEN [outcome |-> None, rows |-> rows,
               within |-> ~(num > median_shift_limit * den), rounds |-> rounds]
         ELSE [outcome |-> transform, rows |-> rows, within |-> TRUE, rounds |-> rounds]

EmptyCache == [k \in Keys |-> None]

\* self.tracking_cache.get(tracking_key)
CacheGet(cache, key) == cache[key]

\* detect(data, img=...) for a frame of identity key; meas is what the trackers
\* report for the frame if they are asked now.
Detect(key, meas) ==
    LET cache0 == IF tracking_cache = None THEN EmptyCache ELSE The(tracking_cache)
        cached == CacheGet(cache0, key)
        miss == cached = None
    IN  \E entry \in {IF miss
                      THEN [translations |-> Translations(meas),
                            vshape |-> VShape, lshape |-> LShape]
                      ELSE The(cached)} :
        \E work \in {TranslationsCopy(entry.translations)} :
        \E scaled \in {Rescale(work.rows, entry.vshape, entry.lshape)} :
        \E fit \in {FitLoop(scaled, 100, 1, None, <<>>)} :
          LET cache1 == IF miss THEN [cache0 EXCEPT ![key] = Some(entry)] ELSE cache0
              \* the in-place division writes to whatever array work is
              cache2 == IF work.shared
                        THEN [cache1 EXCEPT
                                 ![key] = Some([entry EXCEPT !.translations = scaled])]
                        ELSE cache1
              outcome == IF fit.outcome = None
                         THEN None
                         ELSE Some([transform |-> The(fit.outcome),
                                    lyscale |-> entry.vshape[1] \div entry.lshape[1],
                                    lxscale |-> entry.vshape[2] \div entry.lshape[2]])
          IN  /\ tracking_cache' = Some(cache2)
              /\ last_detect' = Some([key |-> key, invoked |-> miss,
                                      repeat |-> first_outcome[key] /= None,
                                      prior |-> first_outcome[key],
                                      outcome |-> outcome,
                                      rounds |-> fit.rounds,
                                      final_n |-> Len(fit.rows),
                                      within |-> fit.within])
              /\ first_outcome' =
                    IF first_outcome[key] = None
                    THEN [first_outcome EXCEPT
                             ![key] = Some([outcome |-> outcome, entry |-> entry])]
                    ELSE first_outcome
              /\ UNCHANGED <<grid_vars, accum_vars, dn_vars>>

\* The measurements worth trying: the trackers are not asked on a cache hit.
MeasFor(key) ==
    IF CacheGet(IF tracking_cache = None THEN EmptyCache ELSE The(tracking_cache),
                key) = None
    THEN Measurements(key)
    ELSE {OffsetsOf(<<0, 0>>, {})}

\* load_state(state): state['cache'] is absent (None), or is the dict this rop's
\* get_state handed out, which is the live cache itself
LoadState(hasCache) ==
    /\ tracking_cache' = IF hasCache THEN tracking_cache ELSE None
    /\ first_outcome' = [k \in Keys |-> None]
    /\ UNCHANGED <<last_detect, grid_vars, accum_vars, dn_vars>>

DetectInit ==
    /\ GridIdle /\ AccumIdle /\ DenoiseIdle
    /\ tracking_cache = None
    /\ last_detect = None
    /\ first_outcome = [k \in Keys |-> None]

DetectNext ==
    \/ \E key \in Keys : \E meas \in MeasFor(key) : Detect(key, meas)
    \/ \E hasCache \in BOOLEAN : LoadState(hasCache)

SpecDetect == DetectInit /\ [][DetectNext]_vars

\* C1: detect returns None when fewer than 4 samples remain after outlier
\* removal, and returns (transform, lyscale, lxscale) whenever the fit loop ends
\* with at least 4 remaining samples whose median squared residual is within
\* median_shift_limit, in particular when exactly 4 remain.
DetectNeedsFourSamples ==
    last_detect /= None =>
        LET d == The(last_detect)
        IN  /\ d.final_n < 4 => d.outcome = None
            /\ (d.final_n >= 4 /\ d.within) => d.outcome /= None

\* What the code does instead: 5 samples are needed.
DetectNeedsFiveSamples ==
    last_detect /= None =>
        LET d == The(last_detect)
        IN  (d.outcome /= None) = (d.final_n >= 5 /\ d.within)

\* C2: a second detect on the same key, with no load_state in between, asks no
\* tracker and returns the outcome of the first; the rescaling and outlier
\* removal of a detect leave the cached entry as it was stored.
CacheCorrectness ==
    /\ last_detect /= None /\ The(last_detect).repeat =>
          /\ ~The(last_detect).invoked
          /\ The(last_detect).outcome = The(The(last_detect).prior).outcome
    /\ \A k \in Keys :
          first_outcome[k] /= None =>
              /\ tracking_cache /= None
              /\ The(tracking_cache)[k] = Some(The(first_outcome[k]).entry)

\* A repeated detect that returned a transform with a non-zero translation.
CacheRepeatedDetect ==
    /\ last_detect /= None
    /\ The(last_detect).repeat
    /\ The(last_detect).outcome /= None
    /\ The(The(last_detect).outcome).transform.sy /= 0
    /\ Len(The(last_detect).rounds) >= 1

\* The indices of a round's samples whose residual is the round's largest.
Worst(round) == {i \in DOMAIN round.mags : \A j \in DOMAIN round.mags :
                                              round.mags[j] <= round.mags[i]}

\* s without the entries at the indices gone, the others in order.
Without(s, gone) ==
    LET kept == DOMAIN s \ gone
        nth(j) == CHOOSE i \in kept : Cardinality({h \in kept : h < i}) = j - 1
    IN  [j \in 1..Cardinality(kept) |-> s[nth(j)]]

NumDarks == 2
\* steps: the branching factor of the search (8 by default)
Steps == 2
\* maxsteps: the denominator ceiling (512 by default)
MaxSteps == 8
\* mink = 0.01, as the fraction MinkNum / MinkDen
MinkNum == 1
MinkDen == 100

DnPixels == 1..3
\* uint16 sensor values tried for the light and the dark frames
LightVals == {1, 3}
DarkVals == {0, 4}

\* a mutation of LightPixels: the search works on the pixels of the start
LightPixelsAtStart(buffer, original) == original

\* light.rimg.raw_image as entropy() reads it: a view of the live buffer, not
\* of the pixels the frame had when denoise started
LightPixels(buffer, original) == buffer

\* Shannon entropy of the histogram of |light - dark * k_num / k_denom|.
\* scipy.stats.entropy(counts) is ln n - (sum of c ln c) / n for counts c of n
\* pixels; every histogram compared has the same n, so entropies are ordered
\* as the integers -(product of c^c), which is what is returned.
Entropy(lightpix, dark, k_denom, k_num) ==
    LET scratch == [p \in DOMAIN lightpix |->
                       LET d == lightpix[p] - (dark[p] * k_num) \div k_denom
                       IN  IF d < 0 THEN -d ELSE d]
        labels == {scratch[p] : p \in DOMAIN scratch}
        count(v) == Cardinality({p \in DOMAIN scratch : scratch[p] = v})
        prod[S \in SUBSET labels] ==
            IF S = {} THEN 1
            ELSE LET v == CHOOSE x \in S : TRUE
                 IN  Pow(count(v), count(v)) * prod[S \ {v}]
    IN  -prod[labels]

\* Python's tuple order on (e, k_num, k_denom)
TupleLess(a, b) ==
    \/ a[1] < b[1]
    \/ a[1] = b[1] /\ a[2] < b[2]
    \/ a[1] = b[1] /\ a[2] = b[2] /\ a[3] < b[3]

\* _refine_entropy: the best (e, k_num, k_denom) among the steps candidates
RefineEntropy(lightpix, dark, steps, denom, base) ==
    LET b == base * steps
        d == denom * steps
        dark_ranges == {<<Entropy(lightpix, dark, d, k), k, d>> : k \in b..(b + steps - 1)}
    IN  CHOOSE m \in dark_ranges : \A o \in dark_ranges : o = m \/ TupleLess(m, o)

\* ((e, base, denom), dark) as a record; dark is the frame's place in darks
RangeOf(t, dark) == [e |-> t[1], base |-> t[2], denom |-> t[3], dark |-> dark]

\* a mutation of BestRanges: the first range is taken, whatever its entropy
FirstRange(rs) == {1}

\* min(ranges): the places of the ranges least in (e, base, denom). Between
\* ranges that tie there Python 2 compares the dark objects, by address: any of
\* them may be the least.
BestRanges(rs) ==
    {i \in DOMAIN rs :
        \A j \in DOMAIN rs :
            ~TupleLess(<<rs[j].e, rs[j].base, rs[j].denom>>,
                       <<rs[i].e, rs[i].base, rs[i].denom>>)}

\* a mutation of RemoveAt: the range taken stays in the list
RemoveNothing(rs, i) == rs

\* ranges.remove(best)
RemoveAt(rs, i) == [j \in 1..(Len(rs) - 1) |-> IF j < i THEN rs[j] ELSE rs[j + 1]]

\* a mutation of ResetRanges: the remaining ranges keep their refinement
KeepRanges(lightpix, rs) == rs

\* lines 176-179: a first-round search for every remaining dark frame
ResetRanges(lightpix, rs) ==
    [j \in DOMAIN rs |->
        RangeOf(RefineEntropy(lightpix, darks[rs[j].dark], Steps, 1, 0), rs[j].dark)]

\* a mutation of ClampedWeight: numpy.minimum is left out
UnclampedWeight(dark, k_num, k_denom, raw_image) ==
    [p \in DOMAIN dark |-> (dark[p] * k_num) \div k_denom]

\* lines 82-85: the dark frame weighted in uint32 and clamped to the light
\* (the products stay far below 2^32 for uint16 pixels and k_num < maxsteps)
ClampedWeight(dark, k_num, k_denom, raw_image) ==
    [p \in DOMAIN dark |-> Min((dark[p] * k_num) \div k_denom, raw_image[p])]

\* raw_image -= dark_weighed, in uint16
SubtractInPlace(raw_image, dark_weighed) ==
    [p \in DOMAIN raw_image |-> (raw_image[p] - dark_weighed[p]) % (UInt16Max + 1)]

NoStep == [kind |-> "none", before |-> <<>>, after |-> <<>>, taken |-> <<>>,
           refined |-> <<>>, pixels |-> <<>>]

\* lines 155-158, run by denoise's first request for a triple
InitialRanges ==
    /\ gen_pc = "start"
    /\ \E pix \in {LightPixels(light, light0)} :
       \E rs \in {[d \in 1..NumDarks |->
                     RangeOf(RefineEntropy(pix, darks[d], Steps, 1, 0), d)]} :
          /\ ranges' = rs
          /\ last_read' = Some([pixels |-> pix, applied |-> Len(emitted)])
          /\ last_step' = [NoStep EXCEPT !.kind = "initial", !.after = rs]
    /\ gen_pc' = "loop"
    /\ UNCHANGED <<light, light0, darks, pending, emitted>>
    /\ UNCHANGED <<grid_vars, accum_vars, detect_vars>>

\* one turn of the while loop, lines 160-169 and 180-181
SchedStep ==
    /\ gen_pc = "loop"
    /\ ranges /= <<>>
    /\ \E i \in BestRanges(ranges) :
       \E pix \in {LightPixels(light, light0)} :
       \E refined \in {RangeOf(RefineEntropy(pix, darks[ranges[i].dark], Steps,
                                             ranges[i].denom, ranges[i].base),
                               ranges[i].dark)} :
       \E rest \in {RemoveAt(ranges, i)} :
          /\ last_read' = Some([pixels |-> pix, applied |-> Len(emitted)])
          /\ IF refined.denom >= MaxSteps
             THEN /\ pending' = Some(refined)
                  /\ emitted' = Append(emitted, refined)
                  /\ ranges' = rest
                  /\ gen_pc' = "yielded"
             ELSE /\ ranges' = Append(rest, refined)
                  /\ gen_pc' = "loop"
                  /\ UNCHANGED <<pending, emitted>>
          /\ last_step' = [NoStep EXCEPT !.kind = "sched", !.before = ranges,
                                         !.after = ranges', !.taken = Some(ranges[i]),
                                         !.refined = Some(refined)]
    /\ UNCHANGED <<light, light0, darks>>
    /\ UNCHANGED <<grid_vars, accum_vars, detect_vars>>

\* the body of denoise's for loop, lines 81-86
ApplyWeight ==
    /\ gen_pc = "yielded"
    /\ \E t \in {The(pending)} :
       \E dark_weighed \in {ClampedWeight(darks[t.dark], t.base, t.denom, light)} :
          /\ light' = SubtractInPlace(light, dark_weighed)
          /\ last_step' = [NoStep EXCEPT !.kind = "apply", !.taken = Some(t),
                                         !.pixels = light]
    /\ pending' = None
    /\ gen_pc' = "resume"
    /\ UNCHANGED <<light0, darks, ranges, emitted, last_read>>
    /\ UNCHANGED <<grid_vars, accum_vars, detect_vars>>

\* the generator resumed after its yield, lines 171-179, up to the loop test
ResumeAfterYield ==
    /\ gen_pc = "resume"
    /\ LET t == emitted[Len(emitted)]
       IN  IF t.base * MinkDen < MinkNum * t.denom
           THEN \* Close enough
                /\ gen_pc' = "done"
                /\ last_step' = [NoStep EXCEPT !.kind = "stop", !.before = ranges,
                                               !.after = ranges, !.taken = Some(t)]
                /\ UNCHANGED <<ranges, last_read>>
           ELSE \E pix \in {LightPixels(light, light0)} :
                \E rs \in {ResetRanges(pix, ranges)} :
                   /\ ranges' = rs
                   /\ gen_pc' = IF rs = <<>> THEN "done" ELSE "loop"
                   /\ last_read' = IF ranges = <<>>
                                   THEN last_read
                                   ELSE Some([pixels |-> pix, applied |-> Len(emitted)])
                   /\ last_step' = [NoStep EXCEPT !.kind = "reset", !.before = ranges,
                                                  !.after = rs, !.taken = Some(t),
                                                  !.pixels = pix]
    /\ UNCHANGED <<light, light0, darks, pending, emitted>>
    /\ UNCHANGED <<grid_vars, accum_vars, detect_vars>>

DnInit ==
    /\ GridIdle /\ AccumIdle /\ DetectIdle
    /\ light \in [DnPixels -> LightVals]
    /\ light0 = light
    /\ darks \in [1..NumDarks -> [DnPixels -> DarkVals]]
    /\ ranges = <<>>
    /\ gen_pc = "start"
    /\ pending = None
    /\ emitted = <<>>
    /\ last_step = NoStep
    /\ last_read = None

DnNext == InitialRanges \/ SchedStep \/ ApplyWeight \/ ResumeAfterYield

SpecDenoise == DnInit /\ [][DnNext]_vars

\* The pixels left of pix once the triples ts have been subtracted, in order.
RECURSIVE Residual(_, _, _)
Residual(pix, ts, n) ==
    IF n = 0 THEN pix
    ELSE LET prev == Residual(pix, ts, n - 1)
             t == ts[n]
         IN  [p \in DOMAIN pix |->
                Max(prev[p] - (darks[t.dark][p] * t.base) \div t.denom, 0)]

\* C3: every entropy evaluation of the search, also after a reset, reads the
\* pixel values the light frame had before denoise started.
SearchReadsOriginalLight ==
    last_read /= None => The(last_read).pixels = light0

\* C3, amended: every entropy evaluation reads the light frame's buffer as
\* denoise has left it: the original pixels less every weighted dark frame
\* applied before the evaluation (the original ones only before the first).
SearchReadsDenoisedLight ==
    last_read /= None =>
        The(last_read).pixels = Residual(light0, emitted, The(last_read).applied)

\* A reset that searched a light frame denoise had already changed.
ResetReadChangedLight ==
    /\ last_step.kind = "reset"
    /\ last_step.after /= <<>>
    /\ last_read /= None
    /\ The(last_read).applied >= 1
    /\ The(last_read).pixels /= light0

\* C4: for every triple denoise applies and every pixel, the amount subtracted
\* is min(dark*k_num/k_denom, light) <= light: each light pixel ends >= 0 and
\* <= its value before, also when several dark frames are applied in a row.
WeightClampInvariant ==
    last_step.kind = "apply" =>
        LET before == last_step.pixels
            t == The(last_step.taken)
        IN  \A p \in DnPixels :
               LET weighed == (darks[t.dark][p] * t.base) \div t.denom
               IN  /\ before[p] - light[p] = Min(weighed, before[p])
                   /\ before[p] - light[p] <= before[p]
                   /\ light[p] >= 0
                   /\ light[p] <= before[p]

\* The second dark frame applied, its weighted value above the light left.
ClampedSecondApplication ==
    /\ last_step.kind = "apply"
    /\ Len(emitted) = 2
    /\ last_step.pixels /= light0
    /\ \E p \in DnPixels :
          LET t == The(last_step.taken)
          IN  (darks[t.dark][p] * t.base) \div t.denom > last_step.pixels[p]

BelowMink(t) == t.base * MinkDen < MinkNum * t.denom

\* r is what a first-round search of [0, 1) at denominator 1 gives for its dark
FreshFirstRound(r, pix) ==
    /\ r.denom = Steps
    /\ r.base \in 0..(Steps - 1)
    /\ r.e = Entropy(pix, darks[r.dark], Steps, r.base)
    /\ \A k \in 0..(Steps - 1) :
          LET ek == Entropy(pix, darks[r.dark], Steps, k)
          IN  r.e < ek \/ (r.e = ek /\ r.base <= k)

\* C7: when a range is finalized and emitted: below mink the generator stops
\* and emits nothing more, whatever ranges remain; otherwise every remaining
\* range is replaced by a fresh first-round search of [0, 1) from base 0 at
\* denominator 1, and the emitted dark frame is not among the remaining ranges.
StopOrResetAfterEmit ==
    /\ \A i \in 1..(Len(emitted) - 1) : ~BelowMink(emitted[i])
    /\ (gen_pc \in {"loop", "done"} /\ emitted /= <<>>) =>
          IF BelowMink(emitted[Len(emitted)])
          THEN gen_pc = "done" /\ last_step.kind = "stop"
          ELSE \A j \in DOMAIN ranges : ranges[j].dark /= emitted[Len(emitted)].dark
    /\ last_step.kind = "stop" =>
          gen_pc = "done" /\ BelowMink(The(last_step.taken))
    /\ last_step.kind = "reset" =>
          /\ ~BelowMink(The(last_step.taken))
          /\ ranges = last_step.after
          /\ Len(last_step.after) = Len(last_step.before)
          /\ \A j \in DOMAIN last_step.after :
                /\ last_step.after[j].dark = last_step.before[j].dark
                /\ last_step.after[j].dark /= The(last_step.taken).dark
                /\ FreshFirstRound(last_step.after[j], light)

\* A reset that discarded the refinement a remaining range had received.
ResetDiscardedRefinement ==
    /\ last_step.kind = "reset"
    /\ \E j \in DOMAIN last_step.before : last_step.before[j].denom > Steps

\* C9: every scheduler step takes exactly one range, of minimal entropy among
\* all active ranges, refines only it (denominator times steps, new base the
\* candidate of lowest entropy in [base*steps, base*steps+steps)) and, unless
\* it reached the ceiling, re-inserts it, all other ranges unchanged.
GlobalScheduling ==
    last_step.kind = "sched" =>
        LET b == last_step.before
            t == The(last_step.taken)
            r == The(last_step.refined)
        IN  /\ \A j \in DOMAIN b : t.e <= b[j].e
            /\ \E i \in DOMAIN b :
                  /\ b[i] = t
                  /\ ranges = IF r.denom < MaxSteps
                              THEN Append(Without(b, {i}), r)
                              ELSE Without(b, {i})
            /\ r.dark = t.dark
            /\ r.denom = t.denom * Steps
            /\ r.base \in (t.base * Steps)..(t.base * Steps + Steps - 1)
            /\ r.e = Entropy(light, darks[r.dark], r.denom, r.base)
            /\ \A k \in (t.base * Steps)..(t.base * Steps + Steps - 1) :
                  r.e <= Entropy(light, darks[r.dark], r.denom, k)

\* A step that took a range from behind a worse one and re-inserted it.
SchedTookBestFromBehind ==
    /\ last_step.kind = "sched"
    /\ The(last_step.refined).denom < MaxSteps
    /\ Len(last_step.before) >= 2
    /\ last_step.before[1].e > The(last_step.taken).e

EmittedOncePerDark ==
    /\ \A i, j \in DOMAIN emitted : i /= j => emitted[i].dark /= emitted[j].dark
    /\ \A i \in DOMAIN emitted : emitted[i].denom >= MaxSteps

\* C10: the generator is eventually exhausted, every dark frame's range having
\* reached a denominator >= maxsteps; at most one triple is emitted per dark
\* frame, each with denominator >= maxsteps.
ExhaustedWithEveryDarkEmitted ==
    /\ EmittedOncePerDark
    /\ gen_pc = "done" => Len(emitted) = NumDarks

\* The refinement rounds a range of denominator d still needs to be emitted.
RECURSIVE Need(_)
Need(d) == IF d * Steps >= MaxSteps THEN 1 ELSE 1 + Need(d * Steps)

\* A measure of the work left: the rounds the active ranges still need, and
\* for every dark frame not yet emitted more than any reset can add.
WorkLeft ==
    LET k == Need(Steps)
        m == k * NumDarks + 2
    IN  CASE gen_pc = "start"   -> (m + k) * NumDarks + 1
          [] gen_pc = "loop"    -> m * Len(ranges)
                                   + SeqSum([j \in DOMAIN ranges |-> Need(ranges[j].denom)])
          [] gen_pc = "yielded" -> (m + k) * Len(ranges) + 2
          [] gen_pc = "resume"  -> (m + k) * Len(ranges) + 1
          [] OTHER              -> 0

\* C10, amended: the generator is exhausted after finitely many steps (every
\* step of the generator and of denoise's loop lowers WorkLeft, a natural
\* number, and a step is possible until the generator is done): it stops early
\* on a finalized ratio below mink, or every dark frame's range has reached a
\* denominator >= maxsteps and been emitted; at most one triple is emitted per
\* dark frame, each with denominator >= maxsteps.
WeightSearchTerminates ==
    /\ [][WorkLeft' < WorkLeft]_vars
    /\ [](WorkLeft >= 0)
    /\ [](gen_pc /= "done" => ENABLED DnNext)
    /\ [](EmittedOncePerDark)
    /\ [](gen_pc = "done" =>
            \/ Len(emitted) = NumDarks
            \/ emitted /= <<>> /\ BelowMink(emitted[Len(emitted)]))

\* The generator exhausted by an early stop with a dark frame never emitted.
StoppedEarly ==
    /\ gen_pc = "done"
    /\ Len(emitted) < NumDarks
    /\ last_step.kind = "stop"

====
